---- MODULE Spec2Model ----
(***************************************************************************)
(* GigaDB (src/indexAvl.js): an append-only framed log (users.jsonl), an   *)
(* order-statistic AVL tree mapping record ids to log offsets, and a       *)
(* snapshot of the tree (users.idx).                                       *)
(*                                                                         *)
(* Strings are sequences of UTF-16 code units, buffers and files are       *)
(* sequences of bytes.                                                     *)
(***************************************************************************)
EXTENDS Integers, Sequences, FiniteSets, TLC

VARIABLES
    indexTree,   \* GigaDb.indexTree.root
    dbExists,    \* users.jsonl exists
    dbFile,      \* the bytes of users.jsonl
    idxExists,   \* users.idx exists
    idxFile,     \* users.idx: the array JSON.stringify wrote
    pc,          \* the process: "boot" before db.init(), "serving" after
    seedPc,      \* seed(): "idle", "loop", "drain" (awaiting 'drain'), "done"
    seedI,       \* seed's loop counter i
    seedPos,     \* seed's currentPos
    seedId,      \* the id of the record seed wrote before awaiting 'drain'
    stream,      \* the write stream: chunks accepted and not yet in the file
    seedLen,     \* the length of the buffer seed wrote before awaiting 'drain'
    inserts,     \* how many records insertUser appended
    restarts,    \* how often the process was killed and started again
    minted,      \* ids crypto.randomUUID() has returned
    frames,      \* history: for each record written, its id, body and bytes
    ret,         \* the last operation and what it returned
    hist,        \* history of the index operations (SpecTree, SpecBTree)
    bTree        \* GigaDb.indexTree.root of index.js: the B-tree index

vars == <<indexTree, dbExists, dbFile, idxExists, idxFile, pc, seedPc, seedI,
          seedPos, seedId, seedLen, stream, inserts, restarts, minted, frames, ret, hist,
          bTree>>

-----------------------------------------------------------------------------
(* Bounds of the model.                                                    *)

\* records insertUser may append in one behaviour
MaxInserts == 1
\* seed(count): the model's count
SeedCount == 2
\* the write stream's highWaterMark, in bytes
HighWaterMark == 100
\* process restarts in one behaviour
MaxRestarts == 1
\* index operations in one behaviour of SpecTree
MaxOps == 6
\* keys of SpecTree are "1" .. "<MaxKey>"
MaxKey == 5
\* entries of the snapshot the indexes of SpecBTree are loaded from, at most
MaxLoaded == 30
\* index operations in one behaviour of SpecBTree
MaxBTreeOps == 3

-----------------------------------------------------------------------------
(* Strings.                                                                *)

Max(a, b) == IF a >= b THEN a ELSE b

\* the code unit of the digit d
Digit(d) == 48 + d

\* String(n) for a number n >= 0: its decimal digits
RECURSIVE NumberToString(_)
NumberToString(n) ==
    IF n < 10 THEN <<Digit(n)>>
    ELSE NumberToString(n \div 10) \o <<Digit(n % 10)>>

\* a < b for two strings: code unit by code unit, a proper prefix is smaller
RECURSIVE Less(_, _)
Less(a, b) ==
    IF b = <<>> THEN FALSE
    ELSE IF a = <<>> THEN TRUE
    ELSE IF a[1] # b[1] THEN a[1] < b[1]
    ELSE Less(Tail(a), Tail(b))

\* the ids crypto.randomUUID() may return, one for every record of a behaviour
Ids == { NumberToString(k) : k \in 1..(SeedCount + MaxInserts) }

\* "a", "e-acute" (2 bytes in UTF-8) and "grinning face" (a surrogate pair,
\* 4 bytes in UTF-8)
Names == { <<97>>, <<233>>, <<55357, 56832>> }
\* the page numbers requested
Pages == { -1, 0, 1, 2 }
\* the two characters b and double quote
Emails == { <<98, 34>> }
\* Date.now()
Times == { 7 }

\* `User${i}`
SeedName(i) == <<85, 115, 101, 114>> \o NumberToString(i)
\* `user${i}@gmail.com`
SeedEmail(i) ==
    <<117, 115, 101, 114>> \o NumberToString(i)
        \o <<64, 103, 109, 97, 105, 108, 46, 99, 111, 109>>

-----------------------------------------------------------------------------
(* Buffer.from(string) and buffer.toString('utf8').                        *)

IsHigh(u) == u >= 55296 /\ u <= 56319
IsLow(u) == u >= 56320 /\ u <= 57343

\* the UTF-8 bytes of the code point cp
EncodeCodePoint(cp) ==
    IF cp < 128 THEN <<cp>>
    ELSE IF cp < 2048 THEN <<192 + (cp \div 64), 128 + (cp % 64)>>
    ELSE IF cp < 65536 THEN
        <<224 + (cp \div 4096), 128 + ((cp \div 64) % 64), 128 + (cp % 64)>>
    ELSE <<240 + (cp \div 262144), 128 + ((cp \div 4096) % 64),
           128 + ((cp \div 64) % 64), 128 + (cp % 64)>>

\* the concatenation of the sequences of ss, halving ss (a long sequence is
\* never walked one element per level of recursion)
RECURSIVE Flatten(_)
Flatten(ss) ==
    IF ss = <<>> THEN <<>>
    ELSE IF Len(ss) = 1 THEN ss[1]
    ELSE LET mid == Len(ss) \div 2 IN
         Flatten(SubSeq(ss, 1, mid)) \o Flatten(SubSeq(ss, mid + 1, Len(ss)))

\* the bytes that the code unit at position i of s contributes: a surrogate
\* pair is one code point, encoded at its first unit; a lone surrogate is
\* U+FFFD
UnitBytes(s, i) ==
    IF IsHigh(s[i]) /\ i < Len(s) /\ IsLow(s[i + 1]) THEN
        EncodeCodePoint(65536 + (s[i] - 55296) * 1024 + (s[i + 1] - 56320))
    ELSE IF IsLow(s[i]) /\ i > 1 /\ IsHigh(s[i - 1]) THEN <<>>
    ELSE IF IsHigh(s[i]) \/ IsLow(s[i]) THEN EncodeCodePoint(65533)
    ELSE EncodeCodePoint(s[i])

\* Buffer.from(s): the UTF-8 bytes of s
BufferFrom(s) == Flatten([i \in 1..Len(s) |-> UnitBytes(s, i)])

\* Buffer.byteLength(s)
ByteLength(s) == Len(BufferFrom(s))

IsCont(b) == b >= 128 /\ b <= 191

\* the bytes a UTF-8 sequence led by b needs (0: b leads nothing)
SeqLen(b) ==
    IF b < 128 THEN 1
    ELSE IF b >= 194 /\ b <= 223 THEN 2
    ELSE IF b >= 224 /\ b <= 239 THEN 3
    ELSE IF b >= 240 /\ b <= 244 THEN 4
    ELSE 0

\* the continuation bytes that follow b[1], at most n
RECURSIVE ContRun(_, _)
ContRun(b, n) ==
    IF n = 0 \/ Len(b) < 2 \/ ~IsCont(b[2]) THEN 0
    ELSE 1 + ContRun(Tail(b), n - 1)

\* the code units of a code point
Units(cp) ==
    IF cp < 65536 THEN <<cp>>
    ELSE <<55296 + ((cp - 65536) \div 1024), 56320 + ((cp - 65536) % 1024)>>

\* the code point of the well-formed sequence b[1..n]
CodePoint(b, n) ==
    IF n = 1 THEN b[1]
    ELSE IF n = 2 THEN (b[1] - 192) * 64 + (b[2] - 128)
    ELSE IF n = 3 THEN (b[1] - 224) * 4096 + (b[2] - 128) * 64 + (b[3] - 128)
    ELSE (b[1] - 240) * 262144 + (b[2] - 128) * 4096
             + (b[3] - 128) * 64 + (b[4] - 128)

\* the decoder, byte after byte: every ill-formed or cut sequence decodes
\* to U+FFFD
RECURSIVE Decode(_)
Decode(b) ==
    IF b = <<>> THEN <<>>
    ELSE LET n == SeqLen(b[1])
             k == IF n = 0 THEN 0 ELSE ContRun(b, n - 1)
         IN  IF n >= 1 /\ k = n - 1
             THEN Units(CodePoint(b, n)) \o Decode(SubSeq(b, n + 1, Len(b)))
             ELSE <<65533>> \o Decode(SubSeq(b, k + 2, Len(b)))

\* the continuation bytes that follow position i of b
RECURSIVE ContCount(_, _)
ContCount(b, i) ==
    IF i + 1 <= Len(b) /\ IsCont(b[i + 1]) THEN 1 + ContCount(b, i + 1) ELSE 0

\* buf.toString('utf8').  A sequence never extends over a byte that is no
\* continuation byte, so the decoder is at every such byte when it reaches
\* it: the text is the decoder's text of each byte with the continuation
\* bytes that follow it, one after the other.
BufToString(b) ==
    Flatten([i \in 1..Len(b) |->
        IF i > 1 /\ IsCont(b[i]) THEN <<>>
        ELSE Decode(SubSeq(b, i, i + ContCount(b, i)))])

\* len.writeUInt32BE(n): 4 bytes, most significant first
WriteUInt32BE(n) ==
    << (n \div 16777216) % 256, (n \div 65536) % 256, (n \div 256) % 256, n % 256 >>

\* lenBuf.readUInt32BE(0)
ReadUInt32BE(b) == b[1] * 16777216 + b[2] * 65536 + b[3] * 256 + b[4]

-----------------------------------------------------------------------------
(* JSON.stringify and JSON.parse of a user record.                        *)

HexDigit(d) == IF d < 10 THEN 48 + d ELSE 87 + d

\* the text of one code unit inside a JSON string
EscapeUnit(u) ==
    IF u = 34 THEN <<92, 34>>
    ELSE IF u = 92 THEN <<92, 92>>
    ELSE IF u = 8 THEN <<92, 98>>
    ELSE IF u = 9 THEN <<92, 116>>
    ELSE IF u = 10 THEN <<92, 110>>
    ELSE IF u = 12 THEN <<92, 102>>
    ELSE IF u = 13 THEN <<92, 114>>
    ELSE IF u < 32 THEN <<92, 117, 48, 48, HexDigit(u \div 16), HexDigit(u % 16)>>
    ELSE <<u>>

Escape(s) == Flatten([i \in 1..Len(s) |-> EscapeUnit(s[i])])

\* JSON.stringify of a string
Quote(s) == <<34>> \o Escape(s) \o <<34>>

\* the property names of a user, as JSON strings
KeyId == <<34, 105, 100, 34>>
KeyName == <<34, 110, 97, 109, 101, 34>>
KeyEmail == <<34, 101, 109, 97, 105, 108, 34>>
KeyCreatedAt == <<34, 99, 114, 101, 97, 116, 101, 100, 65, 116, 34>>

\* JSON.stringify(user) for user = { id, name, email, createdAt }
JSONStringify(user) ==
    <<123>> \o KeyId \o <<58>> \o Quote(user.id)
        \o <<44>> \o KeyName \o <<58>> \o Quote(user.name)
        \o <<44>> \o KeyEmail \o <<58>> \o Quote(user.email)
        \o <<44>> \o KeyCreatedAt \o <<58>> \o NumberToString(user.createdAt)
        \o <<125>>

SyntaxError == [ok |-> FALSE]

IsWs(u) == u \in {32, 9, 10, 13}
IsDigit(u) == u >= 48 /\ u <= 57

\* the first position from i on that holds no JSON whitespace
RECURSIVE SkipWs(_, _)
SkipWs(t, i) == IF i <= Len(t) /\ IsWs(t[i]) THEN SkipWs(t, i + 1) ELSE i

HexValue(u) ==
    IF u >= 48 /\ u <= 57 THEN u - 48
    ELSE IF u >= 97 /\ u <= 102 THEN u - 87
    ELSE IF u >= 65 /\ u <= 70 THEN u - 55
    ELSE -1

\* the characters of a JSON string from position i (after the opening
\* quote) to its closing quote
RECURSIVE ParseChars(_, _, _)
ParseChars(t, i, acc) ==
    IF i > Len(t) THEN SyntaxError
    ELSE IF t[i] = 34 THEN [ok |-> TRUE, value |-> acc, next |-> i + 1]
    ELSE IF t[i] < 32 THEN SyntaxError
    ELSE IF t[i] # 92 THEN ParseChars(t, i + 1, Append(acc, t[i]))
    ELSE IF i + 1 > Len(t) THEN SyntaxError
    ELSE LET e == t[i + 1] IN
         IF e \in {34, 92, 47} THEN ParseChars(t, i + 2, Append(acc, e))
         ELSE IF e = 98 THEN ParseChars(t, i + 2, Append(acc, 8))
         ELSE IF e = 116 THEN ParseChars(t, i + 2, Append(acc, 9))
         ELSE IF e = 110 THEN ParseChars(t, i + 2, Append(acc, 10))
         ELSE IF e = 102 THEN ParseChars(t, i + 2, Append(acc, 12))
         ELSE IF e = 114 THEN ParseChars(t, i + 2, Append(acc, 13))
         ELSE IF e = 117 /\ i + 5 <= Len(t)
                 /\ \A j \in 2..5 : HexValue(t[i + j]) >= 0
              THEN ParseChars(t, i + 6,
                       Append(acc, HexValue(t[i + 2]) * 4096 + HexValue(t[i + 3]) * 256
                                     + HexValue(t[i + 4]) * 16 + HexValue(t[i + 5])))
         ELSE SyntaxError

\* a JSON string at position i
ParseString(t, i) ==
    IF i <= Len(t) /\ t[i] = 34 THEN ParseChars(t, i + 1, <<>>) ELSE SyntaxError

RECURSIVE ParseDigits(_, _, _)
ParseDigits(t, i, acc) ==
    IF i <= Len(t) /\ IsDigit(t[i]) THEN ParseDigits(t, i + 1, acc * 10 + (t[i] - 48))
    ELSE [ok |-> TRUE, value |-> acc, next |-> i]

\* a JSON number at position i (the model's numbers are the naturals)
ParseNumber(t, i) ==
    IF i > Len(t) \/ ~IsDigit(t[i]) THEN SyntaxError
    ELSE IF t[i] = 48 THEN
        IF i + 1 <= Len(t) /\ IsDigit(t[i + 1]) THEN SyntaxError
        ELSE [ok |-> TRUE, value |-> 0, next |-> i + 1]
    ELSE ParseDigits(t, i, 0)

\* the member  <key> : <value>  at position i, the value a string
\* (isString) or a number, preceded by the character lead ("{" or ",")
ParseMember(t, i, lead, key, isString) ==
    IF i > Len(t) \/ t[i] # lead THEN SyntaxError
    ELSE LET k == ParseString(t, i + 1) IN
         IF ~k.ok \/ Quote(k.value) # key THEN SyntaxError
         ELSE IF k.next > Len(t) \/ t[k.next] # 58 THEN SyntaxError
         ELSE IF isString THEN ParseString(t, k.next + 1)
         ELSE ParseNumber(t, k.next + 1)

\* JSON.parse(t) where t is a user record's text: the object's four members,
\* white space allowed before and after it; anything else is a SyntaxError
JSONParse(t) ==
    LET a == ParseMember(t, SkipWs(t, 1), 123, KeyId, TRUE) IN
    IF ~a.ok THEN SyntaxError ELSE
    LET b == ParseMember(t, a.next, 44, KeyName, TRUE) IN
    IF ~b.ok THEN SyntaxError ELSE
    LET c == ParseMember(t, b.next, 44, KeyEmail, TRUE) IN
    IF ~c.ok THEN SyntaxError ELSE
    LET d == ParseMember(t, c.next, 44, KeyCreatedAt, FALSE) IN
    IF ~d.ok THEN SyntaxError
    ELSE IF d.next > Len(t) \/ t[d.next] # 125 THEN SyntaxError
    ELSE IF SkipWs(t, d.next + 1) # Len(t) + 1 THEN SyntaxError
    ELSE [ok |-> TRUE,
          value |-> [id |-> a.value, name |-> b.value, email |-> c.value,
                     createdAt |-> d.value]]

-----------------------------------------------------------------------------
(* class Node, class AvlIndexTree.  A tree is null or a node; an operation *)
(* of the class takes the root and returns the new root.                   *)

null == [isNull |-> TRUE]

\* findFilePosition's null
NoPosition == -1

\* what a call throws
Threw == [threw |-> TRUE]

Node(id, filePosition) ==
    [id |-> id, left |-> null, right |-> null, height |-> 1,
     filePosition |-> filePosition, size |-> 1]

getHeight(n) == IF n # null THEN n.height ELSE 0
getSize(n) == IF n # null THEN n.size ELSE 0

\* updateSize that forgets the right subtree
updateSizeLeftOnly(n) ==
    IF n # null THEN [n EXCEPT !.size = 1 + getSize(n.left)] ELSE n

updateSize(n) ==
    IF n # null THEN [n EXCEPT !.size = 1 + getSize(n.left) + getSize(n.right)]
    ELSE n

\* node.height = 1 + Math.max(getHeight(node.left), getHeight(node.right))
updateHeight(n) ==
    [n EXCEPT !.height = 1 + Max(getHeight(n.left), getHeight(n.right))]

getBalance(n) == IF n # null THEN getHeight(n.left) - getHeight(n.right) ELSE 0

\* rotateRight that leaves the size of the node it moves down as it was
rotateRightStaleSize(y) ==
    LET x == y.left
        T2 == x.right
        y1 == updateHeight([y EXCEPT !.left = T2])
    IN  updateSize(updateHeight([x EXCEPT !.right = y1]))

rotateRight(y) ==
    LET x == y.left
        T2 == x.right
        y1 == updateSize(updateHeight([y EXCEPT !.left = T2]))
    IN  updateSize(updateHeight([x EXCEPT !.right = y1]))

rotateLeft(x) ==
    LET y == x.right
        T2 == y.left
        x1 == updateSize(updateHeight([x EXCEPT !.right = T2]))
    IN  updateSize(updateHeight([y EXCEPT !.left = x1]))

\* the four rotation cases that end _insert
insertRebalance(node, id) ==
    LET balance == getBalance(node) IN
    IF balance > 1 /\ Less(id, node.left.id) THEN rotateRight(node)
    ELSE IF balance < -1 /\ Less(node.right.id, id) THEN rotateLeft(node)
    ELSE IF balance > 1 /\ Less(node.left.id, id)
        THEN rotateRight([node EXCEPT !.left = rotateLeft(node.left)])
    ELSE IF balance < -1 /\ Less(id, node.right.id)
        THEN rotateLeft([node EXCEPT !.right = rotateRight(node.right)])
    ELSE node

RECURSIVE _insert(_, _, _)
_insert(node, id, filePosition) ==
    IF node = null THEN Node(id, filePosition)
    ELSE IF Less(id, node.id) THEN
        insertRebalance(updateSize(updateHeight(
            [node EXCEPT !.left = _insert(node.left, id, filePosition)])), id)
    ELSE IF Less(node.id, id) THEN
        insertRebalance(updateSize(updateHeight(
            [node EXCEPT !.right = _insert(node.right, id, filePosition)])), id)
    ELSE [node EXCEPT !.filePosition = filePosition]

\* insert that leaves a key that is present as it is
insertIgnoreDuplicate(root, id, filePosition) ==
    LET RECURSIVE has(_)
        has(n) == IF n = null THEN FALSE
                  ELSE IF id = n.id THEN TRUE
                  ELSE IF Less(id, n.id) THEN has(n.left) ELSE has(n.right)
    IN  IF has(root) THEN root ELSE _insert(root, id, filePosition)

insert(root, id, filePosition) == _insert(root, id, filePosition)

RECURSIVE getMinValueNode(_)
getMinValueNode(node) ==
    IF node.left # null THEN getMinValueNode(node.left) ELSE node

\* the rotation cases of _delete with the left child's balance compared
\* by > where the code has >=
deleteRebalanceStrict(node) ==
    LET balance == getBalance(node) IN
    IF balance > 1 /\ getBalance(node.left) > 0 THEN rotateRight(node)
    ELSE IF balance > 1 /\ getBalance(node.left) < 0
        THEN rotateRight([node EXCEPT !.left = rotateLeft(node.left)])
    ELSE IF balance < -1 /\ getBalance(node.right) <= 0 THEN rotateLeft(node)
    ELSE IF balance < -1 /\ getBalance(node.right) > 0
        THEN rotateLeft([node EXCEPT !.right = rotateRight(node.right)])
    ELSE node

\* the four rotation cases that end _delete
deleteRebalance(node) ==
    LET balance == getBalance(node) IN
    IF balance > 1 /\ getBalance(node.left) >= 0 THEN rotateRight(node)
    ELSE IF balance > 1 /\ getBalance(node.left) < 0
        THEN rotateRight([node EXCEPT !.left = rotateLeft(node.left)])
    ELSE IF balance < -1 /\ getBalance(node.right) <= 0 THEN rotateLeft(node)
    ELSE IF balance < -1 /\ getBalance(node.right) > 0
        THEN rotateLeft([node EXCEPT !.right = rotateRight(node.right)])
    ELSE node

\* the successor copied into the node and left in the right subtree
replaceKeepSuccessor(node, temp, right) ==
    [node EXCEPT !.id = temp.id, !.filePosition = temp.filePosition]

\* the successor's key copied into the node without its offset
replaceBySuccessorIdOnly(node, temp, right) ==
    [node EXCEPT !.id = temp.id, !.right = right]

\* the node that takes the place of a found node with two children
replaceBySuccessor(node, temp, right) ==
    [node EXCEPT !.id = temp.id, !.filePosition = temp.filePosition,
                 !.right = right]

RECURSIVE _delete(_, _)
_delete(node, id) ==
    IF node = null THEN node
    ELSE LET found ==
                 IF node.left = null \/ node.right = null THEN
                     IF node.left # null THEN node.left ELSE node.right
                 ELSE LET temp == getMinValueNode(node.right) IN
                      replaceBySuccessor(node, temp, _delete(node.right, temp.id))
             n == IF Less(id, node.id)
                      THEN [node EXCEPT !.left = _delete(node.left, id)]
                  ELSE IF Less(node.id, id)
                      THEN [node EXCEPT !.right = _delete(node.right, id)]
                  ELSE found
         IN  IF n = null THEN n
             ELSE deleteRebalance(updateSize(updateHeight(n)))

delete(root, id) == _delete(root, id)

RECURSIVE findFilePosition(_, _)
findFilePosition(current, id) ==
    IF current = null THEN NoPosition
    ELSE IF id = current.id THEN current.filePosition
    ELSE IF Less(id, current.id) THEN findFilePosition(current.left, id)
    ELSE findFilePosition(current.right, id)

\* findNodeByIndex that answers the last node of a subtree for an index past it
RECURSIVE findNodeByIndexClamped(_, _)
findNodeByIndexClamped(node, index) ==
    IF node = null THEN null
    ELSE LET leftSize == getSize(node.left) IN
         IF index < leftSize THEN findNodeByIndexClamped(node.left, index)
         ELSE IF index = leftSize \/ node.right = null THEN node
         ELSE findNodeByIndexClamped(node.right, index - leftSize - 1)

RECURSIVE findNodeByIndex(_, _)
findNodeByIndex(node, index) ==
    IF node = null THEN null
    ELSE LET leftSize == getSize(node.left) IN
         IF index < leftSize THEN findNodeByIndex(node.left, index)
         ELSE IF index = leftSize THEN node
         ELSE findNodeByIndex(node.right, index - leftSize - 1)

\* getRange's loop from i on
RECURSIVE getRangeFrom(_, _, _, _, _)
getRangeFrom(root, offset, limit, i, result) ==
    IF ~(i < limit) THEN result
    ELSE LET node == findNodeByIndex(root, offset + i) IN
         IF node # null
         THEN getRangeFrom(root, offset, limit, i + 1,
                  Append(result, [id |-> node.id, pos |-> node.filePosition]))
         ELSE result

getRange(root, offset, limit) == getRangeFrom(root, offset, limit, 0, <<>>)

\* the traversal getRange of the earlier index: one in-order walk that
\* shares result and count between the calls of traverse
RECURSIVE traverse(_, _, _, _)
traverse(node, walk, offset, limit) ==
    IF node = null \/ Len(walk.result) >= limit THEN walk
    ELSE LET afterLeft == traverse(node.left, walk, offset, limit)
             visited ==
                 IF Len(afterLeft.result) < limit
                 THEN [result |-> IF afterLeft.count >= offset
                                  THEN Append(afterLeft.result,
                                           [id |-> node.id, pos |-> node.filePosition])
                                  ELSE afterLeft.result,
                       count |-> afterLeft.count + 1]
                 ELSE afterLeft
         IN  IF Len(visited.result) < limit
             THEN traverse(node.right, visited, offset, limit)
             ELSE visited

getRangeTraversal(root, offset, limit) ==
    traverse(root, [result |-> <<>>, count |-> 0], offset, limit).result

\* toArray's loop: the in-order walk with an explicit stack
RECURSIVE toArrayLoop(_, _, _)
toArrayLoop(cur, stack, res) ==
    IF cur = null /\ stack = <<>> THEN res
    ELSE IF cur # null THEN toArrayLoop(cur.left, Append(stack, cur), res)
    ELSE LET top == stack[Len(stack)] IN
         toArrayLoop(top.right, SubSeq(stack, 1, Len(stack) - 1),
             Append(res, [id |-> top.id, filePosition |-> top.filePosition]))

toArray(root) == toArrayLoop(root, <<>>, <<>>)

\* toTree: the root after inserting the list into the empty tree
RECURSIVE toTreeFrom(_, _)
toTreeFrom(root, list) ==
    IF list = <<>> THEN root
    ELSE toTreeFrom(insert(root, list[1].id, list[1].filePosition), Tail(list))

\* toTree that reads each entry's offset from a field the entries lack
toTreeNoPosition(list) ==
    toTreeFrom(null, [i \in 1..Len(list) |->
                         [id |-> list[i].id, filePosition |-> NoPosition]])

toTree(list) == toTreeFrom(null, list)

-----------------------------------------------------------------------------
(* class BTree of index.js.  The code changes the nodes in place; here each *)
(* method takes the node and returns the node it has become.  An index i of *)
(* the code is the element i + 1 of the sequence.                           *)

\* new BTree(3): the minimum degree t
Degree == 3

\* new BTreeNode(t, leaf)
BTreeNode(leaf) == [leaf |-> leaf, keys |-> <<>>, children |-> <<>>, size |-> 0]

\* array.splice(i, 0, x)
Splice(array, i, x) ==
    SubSeq(array, 1, i) \o <<x>> \o SubSeq(array, i + 1, Len(array))

RECURSIVE SumSizes(_)
SumSizes(children) ==
    IF children = <<>> THEN 0 ELSE children[1].size + SumSizes(Tail(children))

\* updateNodeSize that counts the node's own keys only
updateNodeSizeKeysOnly(node) == [node EXCEPT !.size = Len(node.keys)]

updateNodeSize(node) ==
    [node EXCEPT !.size = Len(node.keys)
                            + (IF ~node.leaf THEN SumSizes(node.children) ELSE 0)]

\* _search's loop: while (i < node.keys.length && id > node.keys[i].id) i++
RECURSIVE SearchScan(_, _, _)
SearchScan(keys, i, id) ==
    IF i < Len(keys) /\ Less(keys[i + 1].id, id) THEN SearchScan(keys, i + 1, id)
    ELSE i

RECURSIVE _search(_, _)
_search(node, id) ==
    LET i == SearchScan(node.keys, 0, id) IN
    IF i < Len(node.keys) /\ node.keys[i + 1].id = id THEN node.keys[i + 1].pos
    ELSE IF node.leaf THEN NoPosition
    ELSE _search(node.children[i + 1], id)

BTree_findFilePosition(root, id) ==
    IF root # null THEN _search(root, id) ELSE NoPosition

_splitChild(parent, i) ==
    LET t == Degree
        y == parent.children[i + 1]
        zKeys == SubSeq(y.keys, t + 1, Len(y.keys))
        zChildren == IF ~y.leaf THEN SubSeq(y.children, t + 1, Len(y.children))
                     ELSE <<>>
        yChildren == IF ~y.leaf THEN SubSeq(y.children, 1, t) ELSE y.children
        medianKey == y.keys[t]
        y1 == updateNodeSize([y EXCEPT !.keys = SubSeq(y.keys, 1, t - 1),
                                       !.children = yChildren])
        z == updateNodeSize([BTreeNode(y.leaf) EXCEPT !.keys = zKeys,
                                                      !.children = zChildren])
    IN  updateNodeSize(
            [parent EXCEPT
                !.children = Splice([parent.children EXCEPT ![i + 1] = y1], i + 1, z),
                !.keys = Splice(parent.keys, i, medianKey)])

\* _insertNonFull's loops: while (i >= 0 && node.keys[i].id > id) i--
RECURSIVE InsertScan(_, _, _)
InsertScan(keys, i, id) ==
    IF i >= 0 /\ Less(id, keys[i + 1].id) THEN InsertScan(keys, i - 1, id)
    ELSE i

RECURSIVE _insertNonFull(_, _, _)
_insertNonFull(node, id, pos) ==
    LET i == InsertScan(node.keys, Len(node.keys) - 1, id) IN
    IF node.leaf
    THEN updateNodeSize(
             [node EXCEPT !.keys = Splice(node.keys, i + 1, [id |-> id, pos |-> pos])])
    ELSE LET child == i + 1
             full == Len(node.children[child + 1].keys) = 2 * Degree - 1
             split == IF full THEN _splitChild(node, child) ELSE node
             down == IF full /\ Less(split.keys[child + 1].id, id)
                     THEN child + 1 ELSE child
         IN  updateNodeSize(
                 [split EXCEPT !.children[down + 1] =
                                   _insertNonFull(split.children[down + 1], id, pos)])

BTree_insert(root, id, pos) ==
    IF root = null
    THEN [BTreeNode(TRUE) EXCEPT !.keys = <<[id |-> id, pos |-> pos]>>, !.size = 1]
    ELSE IF Len(root.keys) = 2 * Degree - 1
    THEN LET s == _splitChild([BTreeNode(FALSE) EXCEPT !.children = <<root>>], 0)
             i == IF Less(s.keys[1].id, id) THEN 1 ELSE 0
         IN  updateNodeSize(
                 [s EXCEPT !.children[i + 1] =
                               _insertNonFull(s.children[i + 1], id, pos)])
    ELSE updateNodeSize(_insertNonFull(root, id, pos))

\* findNodeByIndex of the B-tree from the key i of the node on: the entry at
\* index, null, or the TypeError of node.keys on a node that is null
RECURSIVE BTree_seek(_, _, _)
BTree_seek(node, i, index) ==
    IF node = null THEN Threw
    ELSE IF i < Len(node.keys)
    THEN LET childSize == IF ~node.leaf THEN node.children[i + 1].size ELSE 0 IN
         IF ~node.leaf /\ index < childSize
         THEN BTree_seek(node.children[i + 1], 0, index)
         ELSE IF index - childSize = 0 THEN node.keys[i + 1]
         ELSE BTree_seek(node, i + 1, index - childSize - 1)
    ELSE IF ~node.leaf
    THEN BTree_seek(node.children[Len(node.children)], 0, index)
    ELSE null

BTree_findNodeByIndex(node, index) == BTree_seek(node, 0, index)

\* getRange's loop from i on: the list, or the exception of findNodeByIndex
RECURSIVE BTree_getRangeFrom(_, _, _, _, _)
BTree_getRangeFrom(root, offset, limit, i, result) ==
    IF ~(i < limit) THEN [threw |-> FALSE, result |-> result]
    ELSE LET item == BTree_findNodeByIndex(root, offset + i) IN
         IF item = Threw THEN Threw
         ELSE IF item # null
         THEN BTree_getRangeFrom(root, offset, limit, i + 1,
                  Append(result, [id |-> item.id, pos |-> item.pos]))
         ELSE [threw |-> FALSE, result |-> result]

BTree_getRange(root, offset, limit) ==
    BTree_getRangeFrom(root, offset, limit, 0, <<>>)

\* _collect from the key i of the node on
RECURSIVE _collect(_, _)
_collect(node, i) ==
    IF i < Len(node.keys)
    THEN (IF ~node.leaf THEN _collect(node.children[i + 1], 0) ELSE <<>>)
             \o <<node.keys[i + 1]>> \o _collect(node, i + 1)
    ELSE IF ~node.leaf THEN _collect(node.children[i + 1], 0) ELSE <<>>

BTree_toArray(root) == IF root # null THEN _collect(root, 0) ELSE <<>>

\* the root after inserting the list, one entry after the other
RECURSIVE BTree_insertAll(_, _)
BTree_insertAll(root, list) ==
    IF list = <<>> THEN root
    ELSE BTree_insertAll(BTree_insert(root, list[1].id, list[1].pos), Tail(list))

BTree_toTree(list) == BTree_insertAll(null, list)

\* delete: all the items but the ones with the id, inserted into an empty tree
BTree_delete(root, id) ==
    LET allItems == BTree_toArray(root)
        filtered == SelectSeq(allItems, LAMBDA item : item.id # id)
    IN  BTree_insertAll(null, filtered)

-----------------------------------------------------------------------------
(* The files and the frames.                                               *)

\* const limit = 20 in findByPage
PageLimit == 20

\* the frame of a user: { len, data } with buf = len ++ data
\*   data = JSON.stringify(user) + '\n';  len.writeUInt32BE(data.length);
\*   buf = Buffer.concat([len, Buffer.from(data)])
FrameLength(data) == Len(data)

Frame(user) ==
    LET data == JSONStringify(user) \o <<10>> IN
    [id |-> user.id, user |-> user, data |-> data,
     len |-> WriteUInt32BE(FrameLength(data)), payload |-> BufferFrom(data)]

FrameBuf(f) == f.len \o f.payload

\* JSON.stringify(indexTree.toArray()), as the bytes writeFileSync writes
KeyFilePosition ==
    <<34, 102, 105, 108, 101, 80, 111, 115, 105, 116, 105, 111, 110, 34>>

StringifyEntry(e) ==
    <<123>> \o KeyId \o <<58>> \o Quote(e.id)
        \o <<44>> \o KeyFilePosition \o <<58>> \o NumberToString(e.filePosition)
        \o <<125>>

RECURSIVE StringifyEntries(_)
StringifyEntries(list) ==
    IF list = <<>> THEN <<>>
    ELSE IF Len(list) = 1 THEN StringifyEntry(list[1])
    ELSE StringifyEntry(list[1]) \o <<44>> \o StringifyEntries(Tail(list))

StringifyIndex(list) == BufferFrom(<<91>> \o StringifyEntries(list) \o <<93>>)

\* the entries of the array text t from position i on (t[i] is "{")
RECURSIVE ParseEntries(_, _, _)
ParseEntries(t, i, acc) ==
    LET a == ParseMember(t, i, 123, KeyId, TRUE) IN
    IF ~a.ok THEN SyntaxError ELSE
    LET b == ParseMember(t, a.next, 44, KeyFilePosition, FALSE) IN
    IF ~b.ok THEN SyntaxError
    ELSE IF b.next + 1 > Len(t) \/ t[b.next] # 125 THEN SyntaxError
    ELSE LET list == Append(acc, [id |-> a.value, filePosition |-> b.value]) IN
         IF t[b.next + 1] = 44 THEN ParseEntries(t, b.next + 2, list)
         ELSE IF t[b.next + 1] = 93 /\ b.next + 1 = Len(t)
             THEN [ok |-> TRUE, value |-> list]
         ELSE SyntaxError

\* JSON.parse(fs.readFileSync(IDX_FILENAME, 'utf-8'))
ParseIndex(bytes) ==
    LET t == BufToString(bytes) IN
    IF t = <<91, 93>> THEN [ok |-> TRUE, value |-> <<>>]
    ELSE IF Len(t) < 2 \/ t[1] # 91 THEN SyntaxError
    ELSE ParseEntries(t, 2, <<>>)

\* the record read at position: the 4 bytes at position give size, the size
\* bytes after them are parsed.  A read that ends at the end of the file
\* leaves the rest of the zero-filled buffer as it is, and JSON.parse throws
\* on the text of a buffer that is empty or ends in a zero byte.
ReadRecord(file, position) ==
    IF position + 4 > Len(file) THEN Threw
    ELSE LET size == ReadUInt32BE(SubSeq(file, position + 1, position + 4)) IN
         IF size = 0 \/ position + 4 + size > Len(file) THEN Threw
         ELSE LET r == JSONParse(BufToString(
                           SubSeq(file, position + 5, position + 4 + size)))
              IN  IF r.ok THEN [threw |-> FALSE, data |-> r.value] ELSE Threw

\* findById(id): { data } or an exception
NoData == [isNull |-> TRUE]

findById(root, exists, file, id) ==
    LET position == findFilePosition(root, id) IN
    IF position = NoPosition THEN [threw |-> FALSE, data |-> NoData]
    ELSE IF ~exists THEN Threw
    ELSE ReadRecord(file, position)

\* the loop of findByPage over nodeDataList
RECURSIVE readUsers(_, _, _)
readUsers(file, nodeDataList, users) ==
    IF nodeDataList = <<>> THEN [threw |-> FALSE, users |-> users]
    ELSE LET r == ReadRecord(file, nodeDataList[1].pos) IN
         IF r.threw THEN Threw
         ELSE readUsers(file, Tail(nodeDataList), Append(users, r.data))

\* pageNumber = parseInt(pageNumber) || 1
CoercePage(pageNumber) == IF pageNumber = 0 THEN 1 ELSE pageNumber

\* findByPage(pageNumber): { users } or an exception
findByPage(root, exists, file, pageNumber) ==
    LET limit == PageLimit
        offset == (CoercePage(pageNumber) - 1) * limit
        nodeDataList == getRange(root, offset, limit)
    IN  IF nodeDataList = <<>> THEN [threw |-> FALSE, users |-> <<>>]
        ELSE IF ~exists THEN Threw
        ELSE readUsers(file, nodeDataList, <<>>)

\* findByPage of index.js: the same handler over the B-tree's getRange
BTree_findByPage(root, exists, file, pageNumber) ==
    LET limit == PageLimit
        offset == (CoercePage(pageNumber) - 1) * limit
        nodeDataList == BTree_getRange(root, offset, limit)
    IN  IF nodeDataList.threw THEN Threw
        ELSE IF nodeDataList.result = <<>> THEN [threw |-> FALSE, users |-> <<>>]
        ELSE IF ~exists THEN Threw
        ELSE readUsers(file, nodeDataList.result, <<>>)

-----------------------------------------------------------------------------
(* rebuildIndex.                                                           *)

SetMin(S) == CHOOSE x \in S : \A y \in S : x <= y

\* the pieces of s from position start on, seps the positions of the
\* separators that follow
RECURSIVE SplitFrom(_, _, _)
SplitFrom(s, seps, start) ==
    IF seps = {} THEN << SubSeq(s, start, Len(s)) >>
    ELSE LET j == SetMin(seps) IN
         << SubSeq(s, start, j - 1) >> \o SplitFrom(s, seps \ {j}, j + 1)

\* s.split(sep): the pieces of s between the separators
Split(s, sep) == SplitFrom(s, {i \in 1..Len(s) : s[i] = sep}, 1)

\* the first position >= i of t that holds a double quote, 0 if none
NextQuote(t, i) ==
    LET quotes == {j \in i..Len(t) : t[j] = 34} IN
    IF quotes = {} THEN 0 ELSE SetMin(quotes)

\* /"id":"([^"]+)"/ matched at position i of t
MatchAt(t, i) ==
    IF i + 5 > Len(t) \/ SubSeq(t, i, i + 5) # KeyId \o <<58, 34>>
    THEN [ok |-> FALSE]
    ELSE LET j == NextQuote(t, i + 6) IN
         IF j > i + 6 THEN [ok |-> TRUE, id |-> SubSeq(t, i + 6, j - 1)]
         ELSE [ok |-> FALSE]

\* line.match(/"id":"([^"]+)"/): the leftmost match
Match(line) ==
    LET starts == {i \in 1..Len(line) : MatchAt(line, i).ok} IN
    IF starts = {} THEN [ok |-> FALSE] ELSE MatchAt(line, SetMin(starts))

\* the loop of rebuildIndex
RECURSIVE rebuildLoop(_, _, _)
rebuildLoop(root, lines, pos) ==
    IF lines = <<>> THEN root
    ELSE LET line == lines[1] IN
         IF line = <<>> THEN rebuildLoop(root, Tail(lines), pos)
         ELSE LET match == Match(line) IN
              rebuildLoop(IF match.ok THEN insert(root, match.id, pos) ELSE root,
                          Tail(lines), pos + ByteLength(line \o <<10>>))

\* rebuildIndex that gives each key the offset of its JSON text, after the
\* four bytes of the prefix
RECURSIVE rebuildLoopPayload(_, _, _)
rebuildLoopPayload(root, lines, pos) ==
    IF lines = <<>> THEN root
    ELSE LET line == lines[1] IN
         IF line = <<>> THEN rebuildLoopPayload(root, Tail(lines), pos)
         ELSE LET match == Match(line) IN
              rebuildLoopPayload(
                  IF match.ok THEN insert(root, match.id, pos + 4) ELSE root,
                  Tail(lines), pos + ByteLength(line \o <<10>>))

rebuildIndexPayload(root, file) ==
    rebuildLoopPayload(root, Split(BufToString(file), 10), 0)

rebuildIndex(root, file) == rebuildLoop(root, Split(BufToString(file), 10), 0)

-----------------------------------------------------------------------------
(* class GigaDb and the process around it.                                 *)

NoOp == [op |-> "none"]
NoHist ==
    [n |-> 0, ever |-> {}, added |-> 0, removed |-> 0, last |-> NoOp, deleted |-> {}]

\* the bytes the stream holds
RECURSIVE StreamLength(_)
StreamLength(chunks) ==
    IF chunks = <<>> THEN 0 ELSE Len(chunks[1]) + StreamLength(Tail(chunks))

RECURSIVE Concat(_)
Concat(chunks) == IF chunks = <<>> THEN <<>> ELSE chunks[1] \o Concat(Tail(chunks))

\* no files, the process about to run db.init()
Init ==
    /\ indexTree = null
    /\ dbExists = FALSE /\ dbFile = <<>>
    /\ idxExists = FALSE /\ idxFile = <<>>
    /\ pc = "boot"
    /\ seedPc = "idle" /\ seedI = 0 /\ seedPos = 0 /\ seedId = <<>> /\ seedLen = 0
    /\ stream = <<>>
    /\ inserts = 0
    /\ restarts = 0
    /\ minted = {}
    /\ frames = <<>>
    /\ ret = NoOp
    /\ hist = NoHist
    /\ bTree = null

\* the JavaScript thread is free to run a request handler
Idle == pc = "serving" /\ seedPc # "loop"

\* saveIndex()
saveIndex(root) == StringifyIndex(toArray(root))

\* init(): one of its three branches, which ret records; seed(50000) then
\* runs to its first await in SeedStep, before app.listen's handlers can run
DbInit ==
    /\ pc = "boot"
    /\ IF ~dbExists THEN
           /\ dbExists' = TRUE /\ dbFile' = <<>>
           /\ seedPc' = "loop" /\ seedI' = 0 /\ seedPos' = 0
           /\ pc' = "serving"
           /\ ret' = [op |-> "init", branch |-> "seed"]
           /\ UNCHANGED <<indexTree, idxExists, idxFile>>
       ELSE IF idxExists THEN
           LET list == ParseIndex(idxFile) IN
           /\ indexTree' = IF list.ok THEN toTree(list.value) ELSE indexTree
           /\ pc' = IF list.ok THEN "serving" ELSE "crashed"
           /\ ret' = [op |-> "init", branch |-> "load"]
           /\ UNCHANGED <<dbExists, dbFile, idxExists, idxFile, seedPc, seedI, seedPos>>
       ELSE
           /\ indexTree' = rebuildIndex(indexTree, dbFile)
           /\ idxExists' = TRUE /\ idxFile' = saveIndex(indexTree')
           /\ pc' = "serving"
           /\ ret' = [op |-> "init", branch |-> "rebuild"]
           /\ UNCHANGED <<dbExists, dbFile, seedPc, seedI, seedPos>>
    /\ UNCHANGED <<seedId, seedLen, stream, inserts, restarts, minted, frames, hist, bTree>>

\* stream.write(buf): whether the stream asks for no 'drain'
WriteReturns(chunks) == StreamLength(chunks) < HighWaterMark

\* one iteration of seed's loop, up to its await or to its end
SeedStep ==
    /\ seedPc = "loop" /\ seedI < SeedCount
    /\ \E uniqueId \in Ids \ minted, now \in Times :
         LET user == [id |-> uniqueId, name |-> SeedName(seedI),
                      email |-> SeedEmail(seedI), createdAt |-> now]
             f == Frame(user)
             buf == FrameBuf(f)
         IN  /\ minted' = minted \cup {uniqueId}
             /\ frames' = Append(frames, f)
             /\ stream' = Append(stream, buf)
             /\ IF WriteReturns(stream') THEN
                    /\ indexTree' = insert(indexTree, uniqueId, seedPos)
                    /\ seedPos' = seedPos + Len(buf)
                    /\ seedI' = seedI + 1
                    /\ UNCHANGED <<seedPc, seedId, seedLen>>
                ELSE
                    /\ seedPc' = "drain" /\ seedId' = uniqueId /\ seedLen' = Len(buf)
                    /\ UNCHANGED <<indexTree, seedPos, seedI>>
    /\ UNCHANGED <<dbExists, dbFile, idxExists, idxFile, pc, inserts, restarts, ret, hist, bTree>>

\* 'drain': the stream is empty, seed goes on after its await
SeedResume ==
    /\ pc = "serving" /\ seedPc = "drain" /\ stream = <<>>
    /\ indexTree' = insert(indexTree, seedId, seedPos)
    /\ seedPos' = seedPos + seedLen
    /\ seedI' = seedI + 1
    /\ seedPc' = "loop"
    /\ UNCHANGED <<dbExists, dbFile, idxExists, idxFile, pc, seedId, seedLen, stream,
                   inserts, restarts, minted, frames, ret, hist, bTree>>

\* the end of seed without its saveIndex()
SeedEndNoSave ==
    /\ seedPc = "loop" /\ seedI = SeedCount
    /\ seedPc' = "done"
    /\ UNCHANGED <<indexTree, dbExists, dbFile, idxExists, idxFile, pc, seedI, seedPos,
                   seedId, seedLen, stream, inserts, restarts, minted, frames, ret, hist, bTree>>

\* the end of seed: stream.end(); saveIndex()
SeedEnd ==
    /\ seedPc = "loop" /\ seedI = SeedCount
    /\ seedPc' = "done"
    /\ idxExists' = TRUE /\ idxFile' = saveIndex(indexTree)
    /\ UNCHANGED <<indexTree, dbExists, dbFile, pc, seedI, seedPos, seedId, seedLen,
                   stream, inserts, restarts, minted, frames, ret, hist, bTree>>

\* the stream writes its first k chunks at the end of the file (flags 'a')
StreamFlush ==
    /\ Idle /\ stream # <<>>
    /\ \E k \in 1..Len(stream) :
         /\ dbFile' = dbFile \o Concat(SubSeq(stream, 1, k))
         /\ stream' = SubSeq(stream, k + 1, Len(stream))
    /\ dbExists' = TRUE
    /\ UNCHANGED <<indexTree, idxExists, idxFile, pc, seedPc, seedI, seedPos, seedId,
                   seedLen, inserts, restarts, minted, frames, ret, hist, bTree>>

\* the files and the index as the statements of a handler find and leave
\* them; effects lists the side effects in the order they happened
World ==
    [dbExists |-> dbExists, dbFile |-> dbFile, indexTree |-> indexTree,
     idxExists |-> idxExists, idxFile |-> idxFile, effects |-> <<>>, threw |-> FALSE]

\* a write that replaces the log by buf
appendFileSyncReplaces(w, buf, fails) ==
    IF fails THEN [w EXCEPT !.threw = TRUE]
    ELSE [w EXCEPT !.dbExists = TRUE, !.dbFile = buf,
                   !.effects = Append(@, "append")]

\* fs.appendFileSync(DB_FILENAME, buf); a call that fails throws and has
\* written nothing
appendFileSync(w, buf, fails) ==
    IF fails THEN [w EXCEPT !.threw = TRUE]
    ELSE [w EXCEPT !.dbExists = TRUE, !.dbFile = @ \o buf,
                   !.effects = Append(@, "append")]

\* this.indexTree.insert(uniqueId, currentPos)
treeInsert(w, id, position) ==
    [w EXCEPT !.indexTree = insert(@, id, position), !.effects = Append(@, "insert")]

\* this.saveIndex()
writeIndex(w) ==
    [w EXCEPT !.idxExists = TRUE, !.idxFile = saveIndex(w.indexTree),
              !.effects = Append(@, "save")]

\* insertUser that inserts into the index and saves it before it appends
insertUserIndexFirst(w, user, fails) ==
    LET currentPos == IF w.dbExists THEN Len(w.dbFile) ELSE 0
        w2 == writeIndex(treeInsert(w, user.id, currentPos))
    IN  appendFileSync(w2, FrameBuf(Frame(user)), fails)

\* the statements of insertUser after user is made: an exception of the
\* append ends the call
insertUser(w, user, fails) ==
    LET currentPos == IF w.dbExists THEN Len(w.dbFile) ELSE 0
        w1 == appendFileSync(w, FrameBuf(Frame(user)), fails)
    IN  IF w1.threw THEN w1
        ELSE writeIndex(treeInsert(w1, user.id, currentPos))

\* insertUser(name, email); the append fails or not
InsertUser(name, email) ==
    /\ Idle /\ inserts < MaxInserts
    /\ \E uniqueId \in Ids \ minted, now \in Times, fails \in BOOLEAN :
         LET user == [id |-> uniqueId, name |-> name, email |-> email,
                      createdAt |-> now]
             w == insertUser(World, user, fails)
         IN  /\ dbExists' = w.dbExists /\ dbFile' = w.dbFile
             /\ indexTree' = w.indexTree
             /\ idxExists' = w.idxExists /\ idxFile' = w.idxFile
             /\ IF w.threw THEN
                    /\ ret' = [op |-> "insertUser", threw |-> TRUE]
                    /\ UNCHANGED <<minted, frames, inserts>>
                ELSE
                    /\ minted' = minted \cup {uniqueId}
                    /\ frames' = Append(frames, Frame(user))
                    /\ inserts' = inserts + 1
                    /\ ret' = [op |-> "insertUser", threw |-> FALSE, user |-> user,
                               effects |-> w.effects]
    /\ UNCHANGED <<pc, seedPc, seedI, seedPos, seedId, seedLen, stream, restarts, hist, bTree>>

\* the last operation was a deleteUser(id) that succeeded
JustDeleted(id) == ret.op = "deleteUser" /\ ret.id = id /\ ret.success

\* deleteUser(id) without the early return for a key that is absent
DeleteUserAlways(id) ==
    /\ Idle
    /\ indexTree' = delete(indexTree, id)
    /\ idxExists' = TRUE /\ idxFile' = saveIndex(indexTree')
    /\ ret' = [op |-> "deleteUser", id |-> id, success |-> TRUE,
               again |-> JustDeleted(id)]
    /\ UNCHANGED <<dbExists, dbFile, pc, seedPc, seedI, seedPos, seedId, seedLen,
                   stream, inserts, restarts, minted, frames, hist, bTree>>

\* deleteUser(id); ret.again records that it follows a deleteUser(id) that
\* succeeded, hist.deleted the ids deleted so far
DeleteUser(id) ==
    /\ Idle
    /\ IF findFilePosition(indexTree, id) = NoPosition THEN
           /\ ret' = [op |-> "deleteUser", id |-> id, success |-> FALSE,
                      again |-> JustDeleted(id)]
           /\ UNCHANGED <<indexTree, idxExists, idxFile, hist>>
       ELSE
           /\ indexTree' = delete(indexTree, id)
           /\ idxExists' = TRUE /\ idxFile' = saveIndex(indexTree')
           /\ ret' = [op |-> "deleteUser", id |-> id, success |-> TRUE,
                      again |-> JustDeleted(id)]
           /\ hist' = [hist EXCEPT !.deleted = @ \cup {id}]
    /\ UNCHANGED <<dbExists, dbFile, pc, seedPc, seedI, seedPos, seedId, seedLen,
                   stream, inserts, restarts, minted, frames, bTree>>

\* GET /users/:id
FindById(id) ==
    /\ Idle
    /\ ret' = [op |-> "findById", id |-> id,
               result |-> findById(indexTree, dbExists, dbFile, id)]
    /\ UNCHANGED <<indexTree, dbExists, dbFile, idxExists, idxFile, pc, seedPc, seedI,
                   seedPos, seedId, seedLen, stream, inserts, restarts, minted, frames, hist, bTree>>

\* GET /users/page/:id
FindByPage(pageNumber) ==
    /\ Idle
    /\ ret' = [op |-> "findByPage", page |-> pageNumber,
               result |-> findByPage(indexTree, dbExists, dbFile, pageNumber)]
    /\ UNCHANGED <<indexTree, dbExists, dbFile, idxExists, idxFile, pc, seedPc, seedI,
                   seedPos, seedId, seedLen, stream, inserts, restarts, minted, frames, hist, bTree>>

\* what is left of the text of a snapshot whose write was cut short
Torn(text) == SubSeq(text, 1, Len(text) \div 2)

\* the payload bytes of a frame that a write cut short by a kill has written
\* after the frame's prefix
CutPoints == { 8, 20 }

\* the process is killed and started again: the files stay, the memory
\* (the index, the stream's chunks, seed) is gone.  A kill that falls into
\* the writeFileSync of the saveIndex() that wrote this index leaves the
\* snapshot cut short; the snapshot may also be removed while the process
\* is down.  A kill that falls into the stream's write of its first chunk
\* leaves the log ending in a frame cut short.
Restart ==
    /\ pc # "boot" /\ restarts < MaxRestarts
    /\ \E snapshot \in {"kept", "torn", "removed"} :
         /\ snapshot = "torn" => (idxExists /\ idxFile = saveIndex(indexTree))
         /\ snapshot = "removed" => idxExists
         /\ idxExists' = (idxExists /\ snapshot # "removed")
         /\ idxFile' = IF snapshot = "torn" THEN Torn(idxFile)
                       ELSE IF snapshot = "removed" THEN <<>> ELSE idxFile
    /\ \/ dbFile' = dbFile
       \/ /\ stream # <<>>
          /\ \E written \in CutPoints :
                dbFile' = dbFile \o SubSeq(stream[1], 1, 4 + written)
    /\ restarts' = restarts + 1
    /\ pc' = "boot"
    /\ indexTree' = null
    /\ seedPc' = "idle" /\ seedI' = 0 /\ seedPos' = 0 /\ seedId' = <<>> /\ seedLen' = 0
    /\ stream' = <<>>
    /\ ret' = NoOp
    /\ UNCHANGED <<dbExists, inserts, minted, frames, hist, bTree>>

Next ==
    \/ DbInit
    \/ SeedStep
    \/ SeedResume
    \/ SeedEnd
    \/ StreamFlush
    \/ \E name \in Names, email \in Emails : InsertUser(name, email)
    \/ \E id \in Ids : DeleteUser(id)
    \/ \E id \in Ids : FindById(id)
    \/ \E pageNumber \in Pages : FindByPage(pageNumber)
    \/ Restart

Spec == Init /\ [][Next]_vars

-----------------------------------------------------------------------------
(* The index alone: AvlIndexTree driven by insert and delete.              *)

Keys == { NumberToString(k) : k \in 1..MaxKey }
\* the offsets stored
Positions == { 0, 1 }

InitTree ==
    /\ indexTree = null
    /\ dbExists = FALSE /\ dbFile = <<>>
    /\ idxExists = FALSE /\ idxFile = <<>>
    /\ pc = "index"
    /\ seedPc = "idle" /\ seedI = 0 /\ seedPos = 0 /\ seedId = <<>> /\ seedLen = 0
    /\ stream = <<>>
    /\ inserts = 0
    /\ restarts = 0
    /\ minted = {}
    /\ frames = <<>>
    /\ ret = NoOp
    /\ hist = NoHist
    /\ bTree = null

\* the node of the tree that holds id (null if none)
RECURSIVE findNode(_, _)
findNode(current, id) ==
    IF current = null THEN null
    ELSE IF id = current.id THEN current
    ELSE IF Less(id, current.id) THEN findNode(current.left, id)
    ELSE findNode(current.right, id)

\* indexTree.insert(id, filePosition)
TreeInsert(id, filePosition) ==
    /\ pc = "index" /\ hist.n < MaxOps
    /\ indexTree' = insert(indexTree, id, filePosition)
    /\ hist' = LET old == findFilePosition(indexTree, id) IN
               [n |-> hist.n + 1,
                ever |-> hist.ever \cup {id},
                added |-> hist.added + (IF old = NoPosition THEN 1 ELSE 0),
                removed |-> hist.removed,
                deleted |-> hist.deleted,
                last |-> [op |-> "insert", id |-> id, pos |-> filePosition,
                          old |-> old]]
    /\ UNCHANGED <<dbExists, dbFile, idxExists, idxFile, pc, seedPc, seedI, seedPos,
                   seedId, seedLen, stream, inserts, restarts, minted, frames, ret, bTree>>

\* indexTree.delete(id)
TreeDelete(id) ==
    /\ pc = "index" /\ hist.n < MaxOps
    /\ indexTree' = delete(indexTree, id)
    /\ hist' = LET node == findNode(indexTree, id) IN
               [n |-> hist.n + 1,
                ever |-> hist.ever,
                added |-> hist.added,
                removed |-> hist.removed + (IF node # null THEN 1 ELSE 0),
                deleted |-> hist.deleted,
                last |-> [op |-> "delete", id |-> id, present |-> node # null,
                          two |-> node # null /\ node.left # null
                                      /\ node.right # null]]
    /\ UNCHANGED <<dbExists, dbFile, idxExists, idxFile, pc, seedPc, seedI, seedPos,
                   seedId, seedLen, stream, inserts, restarts, minted, frames, ret, bTree>>

NextTree ==
    \/ \E id \in Keys, filePosition \in Positions : TreeInsert(id, filePosition)
    \/ \E id \in Keys : TreeDelete(id)

SpecTree == InitTree /\ [][NextTree]_vars

-----------------------------------------------------------------------------
(* The two indexes side by side: the B-tree of index.js and the AVL tree   *)
(* of indexAvl.js are loaded from the same snapshot by toTree, as init     *)
(* does, and then receive the same insert and delete calls.                *)

\* the key of the entry i of a snapshot: "10", "12", "14", ...
LoadedKey(i) == NumberToString(10 + 2 * i)
\* the keys of the calls: the first key of a snapshot, two keys that fall
\* between the keys of a snapshot, and one behind them all
CallKeys == { NumberToString(k) : k \in {10, 11, 15, 99} }

\* users.idx of n entries, as each of the two programs writes and reads it
AvlSnapshot(n) ==
    [i \in 1..n |-> [id |-> LoadedKey(i - 1), filePosition |-> i - 1]]
BTreeSnapshot(n) ==
    [i \in 1..n |-> [id |-> LoadedKey(i - 1), pos |-> i - 1]]

InitBTree ==
    /\ \E n \in 0..MaxLoaded :
          /\ indexTree = toTree(AvlSnapshot(n))
          /\ bTree = BTree_toTree(BTreeSnapshot(n))
    /\ dbExists = FALSE /\ dbFile = <<>>
    /\ idxExists = FALSE /\ idxFile = <<>>
    /\ pc = "btree"
    /\ seedPc = "idle" /\ seedI = 0 /\ seedPos = 0 /\ seedId = <<>> /\ seedLen = 0
    /\ stream = <<>>
    /\ inserts = 0
    /\ restarts = 0
    /\ minted = {}
    /\ frames = <<>>
    /\ ret = NoOp
    /\ hist = NoHist

\* the height of a B-tree
RECURSIVE BTreeHeight(_)
BTreeHeight(node) ==
    IF node = null THEN 0
    ELSE IF node.leaf THEN 1
    ELSE 1 + BTreeHeight(node.children[1])

\* indexTree.insert(id, pos) on both indexes
BothInsert(id, pos) ==
    /\ pc = "btree" /\ hist.n < MaxBTreeOps
    /\ bTree' = BTree_insert(bTree, id, pos)
    /\ indexTree' = insert(indexTree, id, pos)
    /\ hist' = [hist EXCEPT
                   !.n = @ + 1,
                   !.last = [op |-> "insert", id |-> id, pos |-> pos,
                             old |-> BTree_findFilePosition(bTree, id),
                             height |-> BTreeHeight(bTree),
                             rootKeys |-> IF bTree = null THEN 0
                                          ELSE Len(bTree.keys)]]
    /\ UNCHANGED <<dbExists, dbFile, idxExists, idxFile, pc, seedPc, seedI, seedPos,
                   seedId, seedLen, stream, inserts, restarts, minted, frames, ret>>

\* indexTree.delete(id) on both indexes
BothDelete(id) ==
    /\ pc = "btree" /\ hist.n < MaxBTreeOps
    /\ bTree' = BTree_delete(bTree, id)
    /\ indexTree' = delete(indexTree, id)
    /\ hist' = [hist EXCEPT
                   !.n = @ + 1,
                   !.last = [op |-> "delete", id |-> id,
                             old |-> BTree_findFilePosition(bTree, id)]]
    /\ UNCHANGED <<dbExists, dbFile, idxExists, idxFile, pc, seedPc, seedI, seedPos,
                   seedId, seedLen, stream, inserts, restarts, minted, frames, ret>>

NextBTree ==
    \/ \E id \in CallKeys, pos \in Positions : BothInsert(id, pos)
    \/ \E id \in CallKeys : BothDelete(id)

SpecBTree == InitBTree /\ [][NextBTree]_vars

-----------------------------------------------------------------------------
(* The claims about the index.                                             *)

\* the nodes of a tree
RECURSIVE Nodes(_)
Nodes(t) == IF t = null THEN {} ELSE {t} \cup Nodes(t.left) \cup Nodes(t.right)

\* the height of a tree, counted
RECURSIVE TrueHeight(_)
TrueHeight(t) ==
    IF t = null THEN 0 ELSE 1 + Max(TrueHeight(t.left), TrueHeight(t.right))

\* the keys of a tree
TreeKeys(t) == { n.id : n \in Nodes(t) }

Abs(x) == IF x < 0 THEN -x ELSE x

\* C4: after every insert and delete of the index, every node's height field
\* is the true height of its subtree and the heights of its two subtrees
\* differ by at most 1.
C4_Balanced ==
    pc = "index" =>
        \A n \in Nodes(indexTree) :
            /\ n.height = TrueHeight(n)
            /\ Abs(TrueHeight(n.left) - TrueHeight(n.right)) <= 1

\* a delete of a node with two children has left a tree of height 3
C4_Witness ==
    /\ pc = "index" /\ hist.last.op = "delete" /\ hist.last.two
    /\ TrueHeight(indexTree) = 3

\* C5: after every insert and delete of the index, every node's size field
\* is 1 + size(left) + size(right), the number of keys in its subtree.
C5_Sizes ==
    pc = "index" =>
        \A n \in Nodes(indexTree) :
            /\ n.size = 1 + getSize(n.left) + getSize(n.right)
            /\ n.size = Cardinality(TreeKeys(n))

\* an insert that updated a key and a delete of a node with two children
C5_Witness ==
    /\ pc = "index" /\ getSize(indexTree) >= 4
    /\ \/ hist.last.op = "delete" /\ hist.last.two
       \/ hist.last.op = "insert" /\ hist.last.old # NoPosition

\* C6: toArray() lists the keys in strictly ascending order, none twice.
C6_Ascending ==
    pc = "index" =>
        LET a == toArray(indexTree) IN
        /\ \A i \in 1..(Len(a) - 1) : Less(a[i].id, a[i + 1].id)
        /\ \A i, j \in 1..Len(a) : i # j => a[i].id # a[j].id

C6_Witness ==
    /\ pc = "index" /\ Len(toArray(indexTree)) >= 4
    /\ hist.last.op = "delete" /\ hist.last.two

\* C7 as stated: the size of the root is the number of distinct keys ever
\* inserted minus the number of deletes that removed a key.
C7_DistinctMinusDeleted ==
    pc = "index" => getSize(indexTree) = Cardinality(hist.ever) - hist.removed

\* C7 amended: the size of the root is the number of inserts that added a
\* key (the key was absent) minus the number of deletes that removed a key,
\* which is the number of keys the index holds.
C7_AddedMinusRemoved ==
    pc = "index" =>
        /\ getSize(indexTree) = hist.added - hist.removed
        /\ getSize(indexTree) = Cardinality(TreeKeys(indexTree))

\* a key was inserted again after it was deleted
C7_Witness ==
    /\ pc = "index" /\ hist.added > Cardinality(hist.ever)
    /\ hist.removed >= 1 /\ getSize(indexTree) >= 2

\* C8: insert of a key that is present (it was inserted before) replaces
\* its offset and adds nothing: one entry for the key, findFilePosition
\* gives the new offset, the root's size is unchanged and every other key
\* keeps its offset.  (The step of insert(id, pos) is the step that counts
\* one more operation and records it as the last one.)
C8_InsertExisting ==
    [][(hist'.n = hist.n + 1 /\ hist'.last.op = "insert"
           /\ findFilePosition(indexTree, hist'.last.id) # NoPosition) =>
          LET id == hist'.last.id
              a == toArray(indexTree')
          IN  /\ Cardinality({i \in 1..Len(a) : a[i].id = id}) = 1
              /\ findFilePosition(indexTree', id) = hist'.last.pos
              /\ getSize(indexTree') = getSize(indexTree)
              /\ \A k \in Keys \ {id} :
                     findFilePosition(indexTree', k) = findFilePosition(indexTree, k)
      ]_vars

\* insert(K, p') right after K held another offset, among other keys
C8_Witness ==
    /\ pc = "index" /\ hist.last.op = "insert"
    /\ hist.last.old # NoPosition /\ hist.last.old # hist.last.pos
    /\ findFilePosition(indexTree, hist.last.id) = hist.last.pos
    /\ getSize(indexTree) >= 3

-----------------------------------------------------------------------------
(* The claims about the engine.                                            *)

\* the frame written for id
FrameOf(id) == frames[CHOOSE i \in 1..Len(frames) : frames[i].id = id]

\* C1: whenever a handler can run, every key of the index maps to an offset
\* p at which the log holds a complete frame: 4 bytes that decode to L > 0,
\* then L bytes, all in the log, that are exactly the key's payload.
C1_IndexedFramesComplete ==
    Idle =>
        \A id \in TreeKeys(indexTree) :
            LET p == findFilePosition(indexTree, id) IN
            /\ p + 4 <= Len(dbFile)
            /\ LET L == ReadUInt32BE(SubSeq(dbFile, p + 1, p + 4)) IN
               /\ L > 0
               /\ p + 4 + L <= Len(dbFile)
               /\ SubSeq(dbFile, p + 5, p + 4 + L) = FrameOf(id).payload

\* C2: after insertUser(name, email) returned a record with key K,
\* findById(K) returns a record equal to it.
C2_RoundTrip ==
    (ret.op = "insertUser" /\ ~ret.threw) =>
        findById(indexTree, dbExists, dbFile, ret.user.id)
            = [threw |-> FALSE, data |-> ret.user]

\* C3: the length prefix of every frame written by insertUser or seed is
\* the number of payload bytes written after it.
C3_PrefixIsByteLength ==
    \A i \in 1..Len(frames) :
        ReadUInt32BE(frames[i].len) = Len(frames[i].payload)

\* C9: a deleteUser(K) that succeeds removes K; a deleteUser(K) right after
\* one that succeeded, or of a key that was never inserted, returns
\* success false and leaves the index, the snapshot file and the log as
\* they were.
C9_DeleteTwice ==
    [][\A id \in Ids :
          DeleteUser(id) =>
              /\ ret'.success => findFilePosition(indexTree', id) = NoPosition
              /\ (JustDeleted(id) \/ id \notin minted) =>
                     /\ ~ret'.success
                     /\ indexTree' = indexTree
                     /\ idxExists' = idxExists /\ idxFile' = idxFile
                     /\ dbExists' = dbExists /\ dbFile' = dbFile
      ]_vars

\* a second deleteUser(K) after one that removed K from an index of three keys
C9_Witness ==
    /\ ret.op = "deleteUser" /\ ret.again /\ ~ret.success
    /\ getSize(indexTree) = 2
    /\ idxExists /\ ParseIndex(idxFile) = [ok |-> TRUE, value |-> toArray(indexTree)]

\* the ids of the users of page n and of the pages after it, up to the first
\* empty page
RECURSIVE pagesFrom(_, _, _, _)
pagesFrom(root, exists, file, n) ==
    LET r == findByPage(root, exists, file, n) IN
    IF r.threw THEN Threw
    ELSE IF r.users = <<>> THEN [threw |-> FALSE, ids |-> <<>>]
    ELSE LET rest == pagesFrom(root, exists, file, n + 1) IN
         IF rest.threw THEN Threw
         ELSE [threw |-> FALSE,
               ids |-> [i \in 1..Len(r.users) |-> r.users[i].id] \o rest.ids]

\* C10: whenever a handler can run and the index holds a key, the pages
\* findByPage(1), findByPage(2), ... up to the first empty one list exactly
\* the in-order enumeration of the index.
C10_PagesAreInOrder ==
    (Idle /\ indexTree # null) =>
        LET a == toArray(indexTree) IN
        pagesFrom(indexTree, dbExists, dbFile, 1)
            = [threw |-> FALSE, ids |-> [i \in 1..Len(a) |-> a[i].id]]

\* C11: a findByPage(n) with n <= 0 returns what findByPage(1) returns (stated
\* for the states in which findByPage(1) returns a list).
C11_NonPositivePageIsFirst ==
    (ret.op = "findByPage" /\ ret.page <= 0
        /\ ~findByPage(indexTree, dbExists, dbFile, 1).threw) =>
        ret.result = findByPage(indexTree, dbExists, dbFile, 1)

\* C12: whenever a handler can run, findByPage(n) with (n - 1) * 20 >= the
\* number of keys of the index returns the empty list and throws nothing,
\* the empty index included, and getRange(offset, 20) with offset >= size is
\* empty.
C12_PastTheEndIsEmpty ==
    Idle =>
        LET size == getSize(indexTree) IN
        /\ \A n \in Pages :
               (n - 1) * PageLimit >= size =>
                   findByPage(indexTree, dbExists, dbFile, n)
                       = [threw |-> FALSE, users |-> <<>>]
        /\ \A offset \in size..(size + PageLimit) :
               getRange(indexTree, offset, PageLimit) = <<>>
        /\ (ret.op = "findByPage" /\ (ret.page - 1) * PageLimit >= size) =>
               ret.result = [threw |-> FALSE, users |-> <<>>]

\* findByPage(2) returned the empty list on an index of three keys
C12_Witness ==
    /\ ret.op = "findByPage" /\ ret.page = 2
    /\ ret.result = [threw |-> FALSE, users |-> <<>>]
    /\ getSize(indexTree) = 3

\* the snapshot file exists and is the in-order listing of the index root:
\* sorted by key, without duplicates, an entry for each key of the index and
\* for no other, each with the offset the index gives
SnapshotLists(exists, file, root) ==
    /\ exists
    /\ LET list == ParseIndex(file) IN
       /\ list.ok
       /\ list.value = toArray(root)
       /\ \A i, j \in 1..Len(list.value) :
              i < j => Less(list.value[i].id, list.value[j].id)
       /\ {list.value[i].id : i \in 1..Len(list.value)} = TreeKeys(root)
       /\ \A i \in 1..Len(list.value) :
              findFilePosition(root, list.value[i].id) = list.value[i].filePosition

\* C13: after every insertUser or deleteUser that returns, the snapshot file
\* is exactly the in-order listing of the index in memory.
C13_SnapshotAfterCall ==
    [][((\E name \in Names, email \in Emails : InsertUser(name, email) /\ ~ret'.threw)
            \/ (\E id \in Ids : DeleteUser(id)))
          => SnapshotLists(idxExists', idxFile', indexTree')
      ]_vars

\* what findNodeByIndex answers: the entry of the node, or null
Entry(node) ==
    IF node = null THEN null ELSE [id |-> node.id, filePosition |-> node.filePosition]

\* C14: for every index reachable by inserts and deletes, the index loaded
\* by toTree from toArray()'s output gives the same findFilePosition for
\* every key, the same findNodeByIndex and getRange for every position, and
\* the same toArray().
C14_SnapshotRoundTrip ==
    LET list == toArray(indexTree)
        loaded == toTree(list)
        size == getSize(indexTree)
    IN  /\ \A id \in Keys :
               findFilePosition(loaded, id) = findFilePosition(indexTree, id)
        /\ \A index \in -1..(size + 1) :
               Entry(findNodeByIndex(loaded, index))
                   = Entry(findNodeByIndex(indexTree, index))
        /\ \A offset \in 0..size, limit \in {1, 2, PageLimit} :
               getRange(loaded, offset, limit) = getRange(indexTree, offset, limit)
        /\ toArray(loaded) = list

\* an index of four keys or more, reached with a delete, that toTree loads
\* in another shape
C14_Witness ==
    /\ pc = "index" /\ getSize(indexTree) >= 4 /\ hist.removed >= 1
    /\ toTree(toArray(indexTree)) # indexTree

\* C15: an insertUser that returns has appended to the log, then inserted
\* into the index, then written the snapshot; the index gives the new key
\* the end of the log as it was before the append, where the frame now
\* starts; and a findById that follows finds the record.
C15_InsertOrder ==
    [][\A name \in Names, email \in Emails :
          (InsertUser(name, email) /\ ~ret'.threw) =>
              LET id == ret'.user.id
                  eof == IF dbExists THEN Len(dbFile) ELSE 0
              IN  /\ ret'.effects = <<"append", "insert", "save">>
                  /\ findFilePosition(indexTree', id) = eof
                  /\ dbFile' = dbFile \o FrameBuf(Frame(ret'.user))
                  /\ SnapshotLists(idxExists', idxFile', indexTree')
                  /\ findById(indexTree', dbExists', dbFile', id)
                         = [threw |-> FALSE, data |-> ret'.user]
      ]_vars

\* C18: an insertUser whose log append fails ends with an error and leaves
\* the index in memory and the snapshot file as they were.
C18_FailedAppend ==
    [][\A name \in Names, email \in Emails :
          (InsertUser(name, email) /\ ret'.threw) =>
              /\ indexTree' = indexTree
              /\ idxExists' = idxExists /\ idxFile' = idxFile
              /\ dbExists' = dbExists /\ dbFile' = dbFile
      ]_vars

\* an insertUser threw on an index of two keys whose snapshot lists them
C18_Witness ==
    /\ ret.op = "insertUser" /\ ret.threw
    /\ getSize(indexTree) = 2
    /\ SnapshotLists(idxExists, idxFile, indexTree)

\* C16: whenever a handler can run, also while seed waits for 'drain', the
\* index holds no key whose frame the write stream has not yet appended to
\* the log.
C16_NoPartialVisibility ==
    Idle =>
        \A id \in TreeKeys(indexTree) :
            \A i \in 1..Len(stream) : stream[i] # FrameBuf(FrameOf(id))

\* C17: with no restart, every (key, offset) that seed or insertUser put
\* into the index is where the key's frame is in the log once the stream has
\* written it, whatever insertUser calls were served while seed waited.
C17_OffsetsAreAnchors ==
    (Idle /\ restarts = 0 /\ stream = <<>>) =>
        \A id \in TreeKeys(indexTree) :
            LET p == findFilePosition(indexTree, id)
                buf == FrameBuf(FrameOf(id))
            IN  /\ p + Len(buf) <= Len(dbFile)
                /\ SubSeq(dbFile, p + 1, p + Len(buf)) = buf

\* init() has returned and no seed is running
StartupFinished == pc = "serving" /\ seedPc \in {"idle", "done"}

\* C19: init acts on the presence of the two files: without a log it
\* creates an empty one and starts seed; with a log and a well-formed
\* snapshot it loads the index from the snapshot and leaves both files as
\* they are; with a log and no snapshot it rebuilds the index from the log
\* and writes the snapshot.  Once startup, seeding included, has finished,
\* the snapshot exists and lists exactly the index in memory.
C19_StartupProtocol ==
    /\ [](StartupFinished => SnapshotLists(idxExists, idxFile, indexTree))
    /\ [][DbInit =>
             IF ~dbExists THEN
                 /\ dbExists' /\ dbFile' = <<>>
                 /\ seedPc' = "loop"
                 /\ indexTree' = indexTree
                 /\ idxExists' = idxExists /\ idxFile' = idxFile
             ELSE IF idxExists THEN
                 ParseIndex(idxFile).ok =>
                     /\ pc' = "serving" /\ seedPc' = seedPc
                     /\ toArray(indexTree') = ParseIndex(idxFile).value
                     /\ dbFile' = dbFile
                     /\ idxExists' /\ idxFile' = idxFile
             ELSE
                 /\ pc' = "serving" /\ seedPc' = seedPc
                 /\ indexTree' = rebuildIndex(null, dbFile)
                 /\ dbFile' = dbFile
                 /\ SnapshotLists(idxExists', idxFile', indexTree')
         ]_vars

\* seeding has ended on a fresh start, with the index of its two keys saved
C19_Witness ==
    /\ StartupFinished /\ seedPc = "done" /\ restarts = 0
    /\ getSize(indexTree) >= SeedCount
    /\ SnapshotLists(idxExists, idxFile, indexTree)

\* C20: an init that finds the log and a snapshot that is not well-formed
\* rebuilds the index from the log and the engine starts.
C20_MalformedSnapshotRebuilds ==
    [][(DbInit /\ dbExists /\ idxExists /\ ~ParseIndex(idxFile).ok) =>
           /\ pc' = "serving"
           /\ indexTree' = rebuildIndex(null, dbFile)
      ]_vars

\* C21: whenever a handler can run, no key that a deleteUser removed is in
\* the index, also after a restart that finds the snapshot missing.
C21_DeletedStaysDeleted ==
    Idle => \A id \in hist.deleted : findFilePosition(indexTree, id) = NoPosition

\* the ids of the frames written
FrameIds == {frames[i].id : i \in 1..Len(frames)}

\* the offsets of file at which the whole frame written for id lies
AnchorsOf(id, file) ==
    LET buf == FrameBuf(FrameOf(id)) IN
    {p \in 0..Len(file) :
        p + Len(buf) <= Len(file) /\ SubSeq(file, p + 1, p + Len(buf)) = buf}

\* init takes its third branch: the log is there, the snapshot is not
Rebuilds == DbInit /\ dbExists /\ ~idxExists

\* C22 as claimed: for every record whose frame is in the log, rebuildIndex
\* stores the offset of the JSON text, 4 bytes after the frame's anchor, and
\* findById of the key after the rebuild does not return the record.
C22_RebuildOffsetsDiffer ==
    [][Rebuilds =>
          \A id \in FrameIds : \A p \in AnchorsOf(id, dbFile) :
              /\ findFilePosition(indexTree', id) = p + 4
              /\ findById(indexTree', dbExists', dbFile', id)
                     # [threw |-> FALSE, data |-> FrameOf(id).user]
      ]_vars

\* the bytes of the frames that lie whole in file before offset p
RECURSIVE BytesOf(_)
BytesOf(ids) ==
    IF ids = {} THEN 0
    ELSE LET id == CHOOSE x \in ids : TRUE IN
         Len(FrameBuf(FrameOf(id))) + BytesOf(ids \ {id})

WholeBefore(file, p) ==
    BytesOf({id \in FrameIds : \E q \in AnchorsOf(id, file) : q < p})

\* C22: for every record whose frame lies in the log behind whole frames
\* only, all of them with a prefix below 128, rebuildIndex stores the offset
\* of the text line that holds the record; the line starts with the frame's
\* prefix, so the offset is the frame's anchor, and findById of the key
\* after the rebuild reads the frame at its anchor and returns the record
\* when the frame's prefix counts all bytes of its JSON text.
C22_RebuildOffsetsAreAnchors ==
    [][Rebuilds =>
          \A id \in FrameIds : \A p \in AnchorsOf(id, dbFile) :
              LET f == FrameOf(id) IN
              (/\ WholeBefore(dbFile, p) = p
               /\ \A i \in 1..Len(frames) : ReadUInt32BE(frames[i].len) < 128) =>
                  /\ findFilePosition(indexTree', id) = p
                  /\ findById(indexTree', dbExists', dbFile', id)
                         = ReadRecord(dbFile, p)
                  /\ ReadUInt32BE(f.len) >= Len(f.payload) - 1 =>
                         findById(indexTree', dbExists', dbFile', id)
                             = [threw |-> FALSE, data |-> f.user]
      ]_vars

\* init has rebuilt an index of two keys or more, each at its frame's
\* anchor, from a log of whole frames
C22_Witness ==
    /\ ret = [op |-> "init", branch |-> "rebuild"]
    /\ getSize(indexTree) >= 2
    /\ WholeBefore(dbFile, Len(dbFile)) = Len(dbFile)
    /\ \A id \in TreeKeys(indexTree) :
           findFilePosition(indexTree, id) \in AnchorsOf(id, dbFile)

\* C23: rebuildIndex indexes exactly the keys of the frames that are whole
\* in the log, and no key of a frame that the end of the log cuts short.
C23_TruncatedFrameNotIndexed ==
    [][Rebuilds =>
          TreeKeys(indexTree') = {id \in FrameIds : AnchorsOf(id, dbFile) # {}}
      ]_vars

\* C24: the snapshot file, when it exists, is a complete well-formed listing,
\* also after a kill inside saveIndex.
C24_SnapshotWellFormed ==
    idxExists => ParseIndex(idxFile).ok

\* s is a prefix of t
IsPrefix(s, t) == Len(s) <= Len(t) /\ SubSeq(t, 1, Len(s)) = s

\* C27: the log is append-only: in every step the log before is a prefix of
\* the log after; deleteUser, findById and findByPage leave it unchanged, and
\* an insertUser that returns appends one whole frame.
C27_LogAppendOnly ==
    [][/\ IsPrefix(dbFile, dbFile')
       /\ dbExists => dbExists'
       /\ (ret' # ret /\ ret'.op \in {"deleteUser", "findById", "findByPage"})
             => (dbFile' = dbFile /\ dbExists' = dbExists)
       /\ (ret' # ret /\ ret'.op = "insertUser" /\ ~ret'.threw)
             => dbFile' = dbFile \o FrameBuf(Frame(ret'.user))
      ]_vars

\* a deleteUser has removed a key whose frame is still whole in a log of
\* three frames
C27_Witness ==
    /\ ret.op = "deleteUser" /\ ret.success
    /\ AnchorsOf(ret.id, dbFile) # {}
    /\ WholeBefore(dbFile, Len(dbFile)) = Len(dbFile)
    /\ Cardinality({id \in FrameIds : AnchorsOf(id, dbFile) # {}}) = 3

\* C28: AvlIndexTree.delete(K) of a present key removes exactly K: afterwards
\* findFilePosition(K) is absent, and every other key, the relocated in-order
\* successor included, keeps the offset it had before the delete.
C28_DeleteRemovesExactlyK ==
    [][(hist'.n = hist.n + 1 /\ hist'.last.op = "delete" /\ hist'.last.present)
          => /\ findFilePosition(indexTree', hist'.last.id) = NoPosition
             /\ \A k \in Keys \ {hist'.last.id} :
                   findFilePosition(indexTree', k) = findFilePosition(indexTree, k)
      ]_vars

\* a delete has removed a node with two children whose successor carried
\* another offset than the one the removed key had, and the successor is
\* still in the index with its own offset
C28_Witness ==
    /\ pc = "index"
    /\ hist.last.op = "delete" /\ hist.last.two
    /\ indexTree # null
    /\ \E k \in Keys :
          /\ Less(hist.last.id, k)
          /\ findFilePosition(indexTree, k) = 1
          /\ \A j \in Keys : (Less(hist.last.id, j) /\ Less(j, k))
                                  => findFilePosition(indexTree, j) = NoPosition
    /\ \E k \in Keys : findFilePosition(indexTree, k) = 0

\* the (offset, limit) pairs of a range call: the offsets findByPage computes
\* for pages -1 .. 2, the ones around the size of the index, and the limits
\* 0, 1, 2 and findByPage's
RangeOffsets == { (CoercePage(pageNumber) - 1) * PageLimit : pageNumber \in -1 .. 2 }
                    \cup (-1 .. MaxKey + 1)
RangeLimits == { 0, 1, 2, PageLimit }

\* C26: the traversal getRange (one in-order walk counting positions) and the
\* positional getRange (limit independent findNodeByIndex calls) return the
\* same list for the same tree and every offset and limit, negative offsets,
\* limit 0 and offsets past the size included.
C26_TraversalEqualsPositional ==
    pc = "index" =>
        \A offset \in RangeOffsets, limit \in RangeLimits :
            getRangeTraversal(indexTree, offset, limit)
                = getRange(indexTree, offset, limit)

-----------------------------------------------------------------------------
(* The claims about the B-tree index.                                      *)

\* the keys the two indexes may hold
BothKeys == CallKeys \cup { LoadedKey(i) : i \in 0..(MaxLoaded - 1) }

\* the (key, offset) pairs of the two toArray() lists
AvlPairs(list) == [i \in 1..Len(list) |-> <<list[i].id, list[i].filePosition>>]
BTreePairs(list) == [i \in 1..Len(list) |-> <<list[i].id, list[i].pos>>]

\* C25: the B-tree index and the AVL index are interchangeable: after the
\* same insert and delete calls, inserts of a present key included, they
\* return the same findFilePosition for every key, the same getRange for
\* every offset and limit, and the same toArray() key/offset sequence.
C25_Interchangeable ==
    pc = "btree" =>
        /\ \A id \in BothKeys :
              BTree_findFilePosition(bTree, id) = findFilePosition(indexTree, id)
        /\ BTreePairs(BTree_toArray(bTree)) = AvlPairs(toArray(indexTree))
        /\ \A offset \in RangeOffsets, limit \in RangeLimits :
              BTree_getRange(bTree, offset, limit)
                  = [threw |-> FALSE, result |-> getRange(indexTree, offset, limit)]

\* C29: on an empty B-tree index (no key was ever inserted, or delete removed
\* the last key and left the root null) getRange(offset, limit) returns the
\* empty list for every offset and every limit >= 1 and raises no error, and
\* findByPage returns an empty page.
C29_EmptyIndexEmptyRange ==
    (pc = "btree" /\ bTree = null) =>
        /\ \A offset \in RangeOffsets, limit \in RangeLimits \ {0} :
              BTree_getRange(bTree, offset, limit)
                  = [threw |-> FALSE, result |-> <<>>]
        /\ \A pageNumber \in Pages :
              BTree_findByPage(bTree, dbExists, dbFile, pageNumber)
                  = [threw |-> FALSE, users |-> <<>>]

\* the nodes of a B-tree and the keys below a node
RECURSIVE BTreeNodes(_)
BTreeNodes(node) ==
    {node} \cup (IF node.leaf THEN {}
                 ELSE UNION { BTreeNodes(node.children[i]) :
                                  i \in 1..Len(node.children) })

RECURSIVE BTreeCount(_)
RECURSIVE BTreeCountFrom(_, _)
BTreeCount(node) ==
    Len(node.keys) + (IF node.leaf THEN 0 ELSE BTreeCountFrom(node.children, 1))
BTreeCountFrom(children, i) ==
    IF i > Len(children) THEN 0
    ELSE BTreeCount(children[i]) + BTreeCountFrom(children, i + 1)

\* no key occurs twice in the list
DistinctKeys(list) ==
    \A i, j \in 1..Len(list) : i # j => list[i].id # list[j].id

\* C30: in the B-tree index, after inserts of pairwise distinct keys and
\* deletes, the splits of the root and of internal nodes included, every
\* node's size is the number of keys in its subtree and
\* findNodeByIndex(root, i) is the i-th element of toArray() for every
\* 0 <= i < number of keys.
C30_SizesCountKeys ==
    LET list == BTree_toArray(bTree) IN
    (pc = "btree" /\ DistinctKeys(list)) =>
        /\ bTree # null =>
              \A node \in BTreeNodes(bTree) : node.size = BTreeCount(node)
        /\ \A i \in 0..(Len(list) - 1) :
              BTree_findNodeByIndex(bTree, i) = list[i + 1]

\* an insert of an absent key into a B-tree of height three has split an
\* internal node below the root: the root went from one key to two
C30_Witness ==
    /\ pc = "btree"
    /\ hist.last.op = "insert" /\ hist.last.old = NoPosition
    /\ hist.last.height = 3 /\ hist.last.rootKeys = 1
    /\ BTreeHeight(bTree) = 3 /\ Len(bTree.keys) = 2
    /\ DistinctKeys(BTree_toArray(bTree))

====
